---- MODULE Spec2Model ----
(***************************************************************************)
(* Model of internal/model/base.go: the schema-type registry (dataType,    *)
(* Get, GetDataType, SetDataType), the keyword sets, the Field descriptor  *)
(* (Tags, IsRelation, GenType, EscapeKeyword, EscapeKeywordFor) and the    *)
(* SQLBuffer (WriteSQL, Dump).  Go strings are TLA+ strings; they are      *)
(* taken apart with Len, SubSeq, Head, Tail and \o.                        *)
(***************************************************************************)
EXTENDS Integers, Sequences, FiniteSets, TLC

VARIABLES dataType, lastSet, nSets, buf, written, m, call

vars == <<dataType, lastSet, nSets, buf, written, m, call>>

(***************************************************************************)
(* Bounds of the model.                                                    *)
(***************************************************************************)
\* longest run of whitespace put in front of a detail string
MaxPad == 1
\* number of SetDataType calls in one run
MaxSets == 2
\* number of bytes written to a SQLBuffer between two Dumps
MaxWrites == 4
\* number of leading "*" put in front of a field type
MaxStars == 2

(***************************************************************************)
(* Helpers of package strings.                                             *)
(***************************************************************************)
At(s, i) == SubSeq(s, i, i)

UpperLetters == "ABCDEFGHIJKLMNOPQRSTUVWXYZ"

LowerLetters == "abcdefghijklmnopqrstuvwxyz"

\* unicode.ToLower and unicode.ToUpper on the ASCII letters
LowerOf == [c \in {At(UpperLetters, i) : i \in 1..Len(UpperLetters)} |->
               At(LowerLetters, CHOOSE i \in 1..Len(UpperLetters) : At(UpperLetters, i) = c)]

UpperOf == [c \in {At(LowerLetters, i) : i \in 1..Len(LowerLetters)} |->
               At(UpperLetters, CHOOSE i \in 1..Len(LowerLetters) : At(LowerLetters, i) = c)]

IsUpperChar(c) == c \in DOMAIN LowerOf

IsLowerChar(c) == c \in DOMAIN UpperOf

IsDigitChar(c) == c \in {"0", "1", "2", "3", "4", "5", "6", "7", "8", "9"}

ToLowerChar(c) ==
    IF IsUpperChar(c)
    THEN LowerOf[c]
    ELSE c

ToUpperChar(c) ==
    IF IsLowerChar(c)
    THEN UpperOf[c]
    ELSE c

RECURSIVE ToLower(_)
ToLower(s) == IF s = "" THEN "" ELSE ToLowerChar(Head(s)) \o ToLower(Tail(s))

\* unicode.IsSpace on the bytes the model uses
IsSpace(c) == c \in {" ", "\t", "\n", "\r", "\f"}

RECURSIVE TrimLeftSpace(_)
TrimLeftSpace(s) ==
    IF s # "" /\ IsSpace(Head(s)) THEN TrimLeftSpace(Tail(s)) ELSE s

RECURSIVE TrimRightSpace(_)
TrimRightSpace(s) ==
    IF s # "" /\ IsSpace(At(s, Len(s)))
    THEN TrimRightSpace(SubSeq(s, 1, Len(s) - 1))
    ELSE s

TrimSpace(s) == TrimRightSpace(TrimLeftSpace(s))

HasPrefix(s, prefix) ==
    Len(s) >= Len(prefix) /\ SubSeq(s, 1, Len(prefix)) = prefix

(***************************************************************************)
(* The schema-type registry.  A dataTypeMapping is a Go closure; the model *)
(* names the closures it uses and Apply calls one.                         *)
(***************************************************************************)
Const(out) == [kind |-> "const", out |-> out]

TinyintMapping == [kind |-> "tinyint", out |-> ""]

\* a caller's mapping whose result depends on the detail string
DetailMapping == [kind |-> "detail", out |-> ""]

NoMapping == [kind |-> "none", out |-> ""]

TinyintOne == "tinyint(1)"

\* a tinyint mapping that does not trim the detail string
TinyintConvertUntrimmed(detailType) ==
    IF HasPrefix(detailType, TinyintOne) THEN "bool" ELSE "int32"

TinyintConvert(detailType) ==
    IF HasPrefix(TrimSpace(detailType), TinyintOne) THEN "bool" ELSE "int32"

Apply(fn, detailType) ==
    CASE fn.kind = "const" -> fn.out
      [] fn.kind = "tinyint" -> TinyintConvert(detailType)
      [] fn.kind = "detail" -> "custom<" \o detailType \o ">"

\* the default the comment of GetDataType describes
defaultDataTypeEmpty == ""

defaultDataType == "string"

BuiltinTable ==
    [numeric |-> Const("int32"), integer |-> Const("int32"), int |-> Const("int32"),
     smallint |-> Const("int32"), mediumint |-> Const("int32"),
     bigint |-> Const("int64"), float |-> Const("float32"), real |-> Const("float64"),
     double |-> Const("float64"), decimal |-> Const("float64"),
     char |-> Const("string"), varchar |-> Const("string"),
     tinytext |-> Const("string"), mediumtext |-> Const("string"),
     longtext |-> Const("string"), binary |-> Const("[]byte"),
     varbinary |-> Const("[]byte"), tinyblob |-> Const("[]byte"),
     blob |-> Const("[]byte"), mediumblob |-> Const("[]byte"),
     longblob |-> Const("[]byte"), text |-> Const("string"), json |-> Const("string"),
     enum |-> Const("string"), time |-> Const("time.Time"), date |-> Const("time.Time"),
     datetime |-> Const("time.Time"), timestamp |-> Const("time.Time"),
     year |-> Const("int32"), bit |-> Const("[]uint8"), boolean |-> Const("bool"),
     tinyint |-> TinyintMapping]

BuiltinDataType == [k \in DOMAIN BuiltinTable |-> BuiltinTable[k]]

\* dataTypeMap.Get: the value returned
Get(reg, typeName, detailType) ==
    IF ToLower(typeName) \in DOMAIN reg
    THEN Apply(reg[ToLower(typeName)], detailType)
    ELSE defaultDataType

\* dataTypeMap.Get: the registry it leaves
GetRegistry(reg, typeName, detailType) == reg

\* SetDataType: the registry it leaves
SetRegistry(reg, dbType, getTypeFunc) ==
    [k \in (DOMAIN reg) \cup {dbType} |-> IF k = dbType THEN getTypeFunc ELSE reg[k]]

\* GetDataType: the value returned
GetDataTypeOf(reg, sqlDataType) == Get(reg, sqlDataType, "")

(***************************************************************************)
(* Inputs of the registry's operations.                                    *)
(***************************************************************************)
TypeNames == {"custom", "Custom", "tinyint", "TINYINT", "bigint", "nonexistent_type"}

CustomMappings == {Const("uuid.UUID"), DetailMapping}

PadChars == {" ", "\t"}

RECURSIVE Pads(_)
Pads(n) == IF n = 0 THEN {""} ELSE Pads(n - 1) \cup {c \o p : c \in PadChars, p \in Pads(n - 1)}

DetailCores == {"", "tinyint(1)", "tinyint(4)", "tinyint(10)", "TINYINT(1)", "tinyint (1)",
                "tinyint(1", "xtinyint(1)"}

DetailTails == {"", " unsigned", " "}

Details == {p \o c \o t : p \in Pads(MaxPad), c \in DetailCores, t \in DetailTails}

\* the detail strings of the calls made while the registry is being changed
FewDetails == {"", "tinyint(1) unsigned", " tinyint(4)"}

\* the type names looked up in the built-in registry
BuiltinNames == {"tinyint", "TINYINT", "bigint", "nonexistent_type"}

NoPrev == [op |-> "none", t |-> "", ret |-> "", before |-> <<>>]

NoCall ==
    [op |-> "none", t |-> "", d |-> "", fn |-> NoMapping, ret |-> "", before |-> <<>>,
     prev |-> NoPrev]

\* the call that came before the one being recorded
Earlier == [op |-> call.op, t |-> call.t, ret |-> call.ret, before |-> call.before]

InitIdle ==
    /\ dataType = BuiltinDataType
    /\ lastSet = [t \in TypeNames |-> NoMapping]
    /\ nSets = 0
    /\ buf = ""
    /\ written = ""
    /\ m = <<>>
    /\ call = NoCall

DoGet(t, d) ==
    /\ call' = [op |-> "Get", t |-> t, d |-> d, fn |-> NoMapping,
                ret |-> Get(dataType, t, d), before |-> dataType, prev |-> NoPrev]
    /\ dataType' = GetRegistry(dataType, t, d)
    /\ UNCHANGED <<lastSet, nSets, buf, written, m>>

DoGetDataType(t) ==
    /\ call' = [op |-> "GetDataType", t |-> t, d |-> "", fn |-> NoMapping,
                ret |-> GetDataTypeOf(dataType, t), before |-> dataType, prev |-> NoPrev]
    /\ dataType' = GetRegistry(dataType, t, "")
    /\ UNCHANGED <<lastSet, nSets, buf, written, m>>

DoSetDataType(t, fn) ==
    /\ nSets < MaxSets
    /\ nSets' = nSets + 1
    /\ dataType' = SetRegistry(dataType, t, fn)
    /\ lastSet' = [lastSet EXCEPT ![t] = fn]
    /\ call' = [op |-> "SetDataType", t |-> t, d |-> "", fn |-> fn, ret |-> "",
                before |-> dataType, prev |-> NoPrev]
    /\ UNCHANGED <<buf, written, m>>

NextTypeMapper ==
    \/ \E t \in TypeNames, d \in FewDetails : DoGet(t, d)
    \/ \E t \in TypeNames : DoGetDataType(t)
    \/ \E t \in TypeNames, fn \in CustomMappings : DoSetDataType(t, fn)

SpecTypeMapper == InitIdle /\ [][NextTypeMapper]_vars

\* lookups in the registry as seeded at process start
NextBuiltin ==
    \/ \E t \in BuiltinNames, d \in Details : DoGet(t, d)
    \/ \E t \in BuiltinNames : DoGetDataType(t)

SpecBuiltin == InitIdle /\ [][NextBuiltin]_vars

(***************************************************************************)
(* SQLBuffer.  buf is the embedded bytes.Buffer; written is the history of *)
(* the bytes handed to WriteSQL since the last Dump.                       *)
(***************************************************************************)
\* a WriteSQL that collapses a run only when the byte written is itself a space
WriteSQLSpaceOnly(s, b) ==
    IF b \in {"\n", "\t", " "}
    THEN IF b = " " /\ Len(s) # 0 /\ At(s, Len(s)) = " " THEN s ELSE s \o " "
    ELSE s \o b

\* SQLBuffer.WriteSQL: the buffer it leaves
WriteSQL(s, b) ==
    IF b \in {"\n", "\t", " "}
    THEN IF Len(s) = 0 \/ At(s, Len(s)) # " " THEN s \o " " ELSE s
    ELSE s \o b

\* a Dump that resets the buffer before it reads it
DumpResultAfterReset(s) == ""

\* SQLBuffer.Dump: the value returned (s.String() is evaluated before the deferred Reset)
DumpResult(s) == s

\* SQLBuffer.Dump: the buffer it leaves (the deferred s.Reset())
DumpBuffer(s) == ""

SQLBytes == {"a", ";", " ", "\t", "\n", "\r"}

DoWriteSQL(b) ==
    /\ Len(written) < MaxWrites
    /\ buf' = WriteSQL(buf, b)
    /\ written' = written \o b
    /\ call' = [op |-> "WriteSQL", t |-> b, d |-> "", fn |-> NoMapping, ret |-> "",
                before |-> written, prev |-> NoPrev]
    /\ UNCHANGED <<dataType, lastSet, nSets, m>>

DoDump ==
    /\ buf' = DumpBuffer(buf)
    /\ written' = ""
    /\ call' = [op |-> "Dump", t |-> "", d |-> "", fn |-> NoMapping,
                ret |-> DumpResult(buf), before |-> written,
                prev |-> NoPrev]
    /\ UNCHANGED <<dataType, lastSet, nSets, m>>

NextSQLBuffer ==
    \/ \E b \in SQLBytes : DoWriteSQL(b)
    \/ DoDump

SpecSQLBuffer == InitIdle /\ [][NextSQLBuffer]_vars

(***************************************************************************)
(* Keyword sets.                                                           *)
(***************************************************************************)
GormKeywords ==
    [words |-> <<"UnderlyingDB", "UseDB", "UseModel", "UseTable", "Quote", "Debug",
                 "TableName", "WithContext", "As", "Not", "Or", "Build", "Columns", "Hints",
                 "Distinct", "Omit", "Select", "Where", "Order", "Group", "Having", "Limit",
                 "Offset", "Join", "LeftJoin", "RightJoin", "Save", "Create",
                 "CreateInBatches", "Update", "Updates", "UpdateColumn", "UpdateColumns",
                 "Find", "FindInBatches", "First", "Take", "Last", "Pluck", "Count",
                 "Scan", "ScanRows", "Row", "Rows", "Delete", "Unscoped", "Scopes">>]

DOKeywords == [words |-> <<"Alias", "TableName", "WithContext">>]

GenKeywords == [words |-> <<"generateSQL", "whereClause", "setClause">>]

\* KeyWord.FullMatch
FullMatch(g, word) == \E i \in 1..Len(g.words) : g.words[i] = word

KeywordSets ==
    [GormKeywords |-> GormKeywords, DOKeywords |-> DOKeywords, GenKeywords |-> GenKeywords]

(***************************************************************************)
(* package field: Tag and GormTag.  A Tag maps a tag key to its value; a   *)
(* GormTag is held as the sequence of its entries.                         *)
(***************************************************************************)
TagKeyGorm == "gorm"

TagKeyOrder == <<"gorm", "json">>

RECURSIVE JoinStrings(_, _)
JoinStrings(parts, sep) ==
    IF parts = <<>> THEN ""
    ELSE IF Len(parts) = 1 THEN parts[1]
    ELSE parts[1] \o sep \o JoinStrings(Tail(parts), sep)

\* Tag.Build
TagBuild(tag) ==
    LET present == SelectSeq(TagKeyOrder, LAMBDA k : k \in DOMAIN tag)
    IN  JoinStrings([i \in 1..Len(present) |->
                        present[i] \o ":\"" \o tag[present[i]] \o "\""], " ")

\* Tag.Set
TagSet(tag, key, value) ==
    [k \in (DOMAIN tag) \cup {key} |-> IF k = key THEN value ELSE tag[k]]

\* GormTag.Build
GormTagBuild(gormTag) == JoinStrings(gormTag, ";")

EmptyTag == [k \in {} |-> ""]

(***************************************************************************)
(* Field.                                                                  *)
(***************************************************************************)
NilRelation == "nil"

\* Field.Tags: the descriptor it leaves
TagsField(f) ==
    IF TagKeyGorm \in DOMAIN f.Tag
    THEN f
    ELSE LET gormTag == TrimSpace(GormTagBuild(f.GORMTag))
         IN  IF gormTag # ""
             THEN [f EXCEPT !.Tag = TagSet(f.Tag, TagKeyGorm, gormTag)]
             ELSE f

\* a Tags that renders the tag before it installs the gorm entry
TagsResultBeforeInstall(f) == TagBuild(f.Tag)

\* Field.Tags: the value returned
TagsResult(f) == TagBuild(TagsField(f).Tag)

\* Field.IsRelation
IsRelation(f) == f.Relation # NilRelation

InCutset(c, cutset) == \E i \in 1..Len(cutset) : At(cutset, i) = c

\* strings.TrimLeft
RECURSIVE TrimLeft(_, _)
TrimLeft(s, cutset) ==
    IF s # "" /\ InCutset(Head(s), cutset) THEN TrimLeft(Tail(s), cutset) ELSE s

\* strings.Title's isSeparator on ASCII
IsSeparator(c) == ~(IsUpperChar(c) \/ IsLowerChar(c) \/ IsDigitChar(c) \/ c = "_")

RECURSIVE TitleFrom(_, _)
TitleFrom(s, prev) ==
    IF s = "" THEN ""
    ELSE (IF IsSeparator(prev) THEN ToUpperChar(Head(s)) ELSE Head(s))
            \o TitleFrom(Tail(s), Head(s))

\* strings.Title
Title(s) == TitleFrom(s, " ")

\* the type switch of a GenType that removes one leading "*" only
GenTypeOfTypeTrimPrefix(fieldType) ==
    LET typ == IF HasPrefix(fieldType, "*") THEN Tail(fieldType) ELSE fieldType
    IN  CASE typ \in {"string", "bytes", "int", "int8", "int16", "int32", "int64",
                      "uint", "uint8", "uint16", "uint32", "uint64",
                      "float64", "float32", "bool"} -> Title(typ)
          [] typ = "time.Time" -> "Time"
          [] typ \in {"json.RawMessage", "[]byte"} -> "Bytes"
          [] typ = "serializer" -> "Serializer"
          [] OTHER -> "Field"

\* Field.GenType: the switch on the type with its leading "*" trimmed
GenTypeOfType(fieldType) ==
    LET typ == TrimLeft(fieldType, "*")
    IN  CASE typ \in {"string", "bytes"} -> Title(typ)
          [] typ \in {"int", "int8", "int16", "int32", "int64",
                      "uint", "uint8", "uint16", "uint32", "uint64"} -> Title(typ)
          [] typ \in {"float64", "float32"} -> Title(typ)
          [] typ = "bool" -> Title(typ)
          [] typ = "time.Time" -> "Time"
          [] typ \in {"json.RawMessage", "[]byte"} -> "Bytes"
          [] typ = "serializer" -> "Serializer"
          [] OTHER -> "Field"

\* a GenType that tests the custom override before the relation
GenTypeCustomFirst(f) ==
    IF f.CustomGenType # "" THEN f.CustomGenType
    ELSE IF IsRelation(f) THEN f.Type
    ELSE GenTypeOfType(f.Type)

\* Field.GenType: the value returned
GenType(f) ==
    IF IsRelation(f) THEN f.Type
    ELSE IF f.CustomGenType # "" THEN f.CustomGenType
    ELSE GenTypeOfType(f.Type)

\* Field.GenType: the descriptor it leaves
GenTypeField(f) == f

\* an EscapeKeywordFor that appends the underscore whenever a keyword is a prefix of the name
EscapeKeywordForPrefix(f, keywords) ==
    IF \E i \in 1..Len(keywords.words) : HasPrefix(f.Name, keywords.words[i])
    THEN [f EXCEPT !.Name = @ \o "_"]
    ELSE f

\* Field.EscapeKeywordFor: the descriptor it leaves (and returns)
EscapeKeywordFor(f, keywords) ==
    IF FullMatch(keywords, f.Name) THEN [f EXCEPT !.Name = @ \o "_"] ELSE f

\* Field.EscapeKeyword
EscapeKeyword(f) == EscapeKeywordFor(f, GormKeywords)

(***************************************************************************)
(* The descriptors the model starts from.                                  *)
(***************************************************************************)
RECURSIVE Stars(_)
Stars(n) == IF n = 0 THEN "" ELSE "*" \o Stars(n - 1)

BaseTypes ==
    {"string", "bytes", "int", "int8", "int16", "int32", "int64", "uint", "uint8",
     "uint16", "uint32", "uint64", "float64", "float32", "bool", "time.Time",
     "json.RawMessage", "[]byte", "serializer", "User", "[]User", "String", ""}

FieldTypes == {Stars(n) \o t : n \in 0..MaxStars, t \in BaseTypes}

WordsOf(keywords) == {keywords.words[i] : i \in 1..Len(keywords.words)}

FieldNames ==
    {"ID", "Find_", "findAll", "find", "FindAll"}
        \cup WordsOf(GormKeywords) \cup WordsOf(DOKeywords) \cup WordsOf(GenKeywords)

InitialTags ==
    {EmptyTag, [json |-> "id"], [gorm |-> "column:pk"], [gorm |-> "", json |-> "id"]}

GormTags == {<<>>, <<" ">>, <<"column:id">>, <<" column:id", "primaryKey ">>}

Relations == {NilRelation, "has_many"}

PlainField ==
    [Name |-> "ID", Type |-> "int64", ColumnName |-> "id", ColumnComment |-> "",
     MultilineComment |-> FALSE, Tag |-> EmptyTag, GORMTag |-> <<>>,
     CustomGenType |-> "", Relation |-> NilRelation]

Fields ==
    {[PlainField EXCEPT !.Type = t, !.CustomGenType = c, !.Relation = r] :
        t \in FieldTypes, c \in {"", "Custom"}, r \in Relations}
    \cup {[PlainField EXCEPT !.Tag = t, !.GORMTag = g] : t \in InitialTags, g \in GormTags}
    \cup {[PlainField EXCEPT !.Name = n] : n \in FieldNames}

InitField ==
    /\ dataType = BuiltinDataType
    /\ lastSet = [t \in TypeNames |-> NoMapping]
    /\ nSets = 0
    /\ buf = ""
    /\ written = ""
    /\ m \in Fields
    /\ call = NoCall

FieldCall(op, t, ret) ==
    [op |-> op, t |-> t, d |-> "", fn |-> NoMapping, ret |-> ret, before |-> m,
     prev |-> Earlier]

DoTags ==
    /\ m' = TagsField(m)
    /\ call' = FieldCall("Tags", "", TagsResult(m))
    /\ UNCHANGED <<dataType, lastSet, nSets, buf, written>>

DoIsRelation ==
    /\ m' = m
    /\ call' = FieldCall("IsRelation", "", IsRelation(m))
    /\ UNCHANGED <<dataType, lastSet, nSets, buf, written>>

DoGenType ==
    /\ m' = GenTypeField(m)
    /\ call' = FieldCall("GenType", "", GenType(m))
    /\ UNCHANGED <<dataType, lastSet, nSets, buf, written>>

DoEscapeKeyword ==
    /\ m' = EscapeKeyword(m)
    /\ call' = FieldCall("EscapeKeyword", "GormKeywords", "")
    /\ UNCHANGED <<dataType, lastSet, nSets, buf, written>>

DoEscapeKeywordFor(k) ==
    /\ m' = EscapeKeywordFor(m, KeywordSets[k])
    /\ call' = FieldCall("EscapeKeywordFor", k, "")
    /\ UNCHANGED <<dataType, lastSet, nSets, buf, written>>

NextField ==
    \/ DoTags
    \/ DoIsRelation
    \/ DoGenType
    \/ DoEscapeKeyword
    \/ \E k \in DOMAIN KeywordSets : DoEscapeKeywordFor(k)

SpecField == InitField /\ [][NextField]_vars

(***************************************************************************)
(* Properties of the registry.                                             *)
(***************************************************************************)
\* a name is registered when some key equals it without regard to letter case
Registered(reg, t) == \E k \in DOMAIN reg : ToLower(k) = ToLower(t)

\* C1: a Get(t, d) that follows SetDataType(t, fn), with no later SetDataType for t,
\* returns fn(d): the last write for t wins, in any letter case of t.
C1_LastSetWins ==
    (call.op = "Get" /\ lastSet[call.t] # NoMapping)
        => call.ret = Apply(lastSet[call.t], call.d)

\* C6: Get(t, d) for a name t under which nothing is registered, comparing names
\* without regard to letter case, returns "string" and leaves the registry as it was.
C6_UnmappedGivesDefault ==
    (call.op = "Get" /\ ~Registered(call.before, call.t))
        => (call.ret = "string" /\ dataType = call.before)

C6_Witness ==
    /\ call.op = "Get"
    /\ nSets > 0
    /\ call.before # BuiltinDataType
    /\ ~Registered(call.before, call.t)
    /\ call.t = "nonexistent_type"
    /\ call.ret = "string"

\* d, less its leading whitespace, starts with the literal "tinyint(1)"
StartsWithTinyintOne(d) ==
    \E i \in 0..Len(d) :
        /\ \A j \in 1..i : At(d, j) \in {" ", "\t", "\n", "\r", "\f"}
        /\ Len(d) >= i + 10
        /\ SubSeq(d, i + 1, i + 10) = "tinyint(1)"

\* C7: with the built-in registry, Get("tinyint", d) is "bool" exactly when d, trimmed of
\* surrounding whitespace, starts with "tinyint(1)", and "int32" for every other d.
C7_TinyintOneIsBool ==
    (call.op = "Get" /\ call.t = "tinyint" /\ call.before = BuiltinDataType)
        => call.ret = (IF StartsWithTinyintOne(call.d) THEN "bool" ELSE "int32")

C7_Witness ==
    /\ call.op = "Get"
    /\ call.t = "tinyint"
    /\ call.before = BuiltinDataType
    /\ call.d = " tinyint(1) unsigned"
    /\ call.ret = "bool"

\* C9: GetDataType(t) returns the Go type registered for t, and the empty string when
\* t is not found in the mapping.
C9_UnmappedGivesEmpty ==
    call.op = "GetDataType"
        => call.ret = (IF ToLower(call.t) \in DOMAIN call.before
                       THEN Apply(call.before[ToLower(call.t)], "")
                       ELSE "")

(***************************************************************************)
(* Properties of the SQLBuffer.                                            *)
(***************************************************************************)
IsSQLSpace(c) == c \in {" ", "\t", "\n"}

NoDoubleSpace(text) ==
    \A i \in 1..(Len(text) - 1) : ~(IsSQLSpace(At(text, i)) /\ IsSQLSpace(At(text, i + 1)))

\* the positions of w that open a run of whitespace or hold another byte
Kept(w) == {i \in 1..Len(w) : ~(IsSQLSpace(At(w, i)) /\ i > 1 /\ IsSQLSpace(At(w, i - 1)))}

\* text is w with every maximal run of whitespace replaced by one space
IsCollapseOf(text, w) ==
    /\ Len(text) = Cardinality(Kept(w))
    /\ \A i \in Kept(w) :
          At(text, Cardinality({j \in Kept(w) : j <= i}))
              = (IF IsSQLSpace(At(w, i)) THEN " " ELSE At(w, i))

\* C2: the accumulated text never holds two whitespace bytes in a row; it is the bytes
\* written since the last Dump with each maximal whitespace run stored as one space.
C2_WhitespaceCollapsed == NoDoubleSpace(buf) /\ IsCollapseOf(buf, written)

C2_Witness == written = "a\n\t;" /\ buf = "a ;" /\ call.op = "WriteSQL"

\* C3: Dump returns the text accumulated since the previous Dump, nothing older, and
\* leaves the buffer empty; with no writes it returns the empty string.
C3_DumpReturnsAndResets ==
    call.op = "Dump"
        => /\ IsCollapseOf(call.ret, call.before)
           /\ (call.before = "" => call.ret = "")
           /\ buf = ""

C3_Witness == call.op = "Dump" /\ call.before = "a \n;" /\ call.ret = "a ;" /\ buf = ""

(***************************************************************************)
(* Properties of Field.                                                    *)
(***************************************************************************)
\* C4: two Tags() calls in a row return the same string, and the second leaves the
\* tag data as the first left it.
C4_TagsIdempotent ==
    (call.op = "Tags" /\ call.prev.op = "Tags")
        => (call.ret = call.prev.ret /\ m = call.before)

C4_Witness ==
    /\ call.op = "Tags"
    /\ call.prev.op = "Tags"
    /\ TagKeyGorm \notin DOMAIN call.prev.before.Tag
    /\ TagKeyGorm \in DOMAIN call.before.Tag
    /\ call.ret = "gorm:\"column:id;primaryKey\" json:\"id\""

EscapeOps == {"EscapeKeyword", "EscapeKeywordFor"}

\* C5: escaping twice against the same keyword set gives the Name that escaping once
\* gives: n + "_" when n is a keyword of the set, n otherwise.
C5_EscapeIdempotent ==
    (call.op \in EscapeOps /\ call.prev.op \in EscapeOps /\ call.t = call.prev.t)
        => LET n == call.prev.before.Name
               once == IF n \in WordsOf(KeywordSets[call.t]) THEN n \o "_" ELSE n
           IN  /\ call.before.Name = once
               /\ m.Name = once
               /\ (n \in WordsOf(KeywordSets[call.t]) => ~FullMatch(KeywordSets[call.t], m.Name))

C5_Witness ==
    /\ call.op = "EscapeKeyword"
    /\ call.prev.op = "EscapeKeyword"
    /\ call.prev.before.Name = "Find"
    /\ call.before.Name = "Find_"
    /\ m.Name = "Find_"

StripOneStar(s) == IF HasPrefix(s, "*") THEN Tail(s) ELSE s

ClaimedKind(typ) ==
    CASE typ = "string" -> "String" [] typ = "bytes" -> "Bytes"
      [] typ = "int" -> "Int" [] typ = "int8" -> "Int8" [] typ = "int16" -> "Int16"
      [] typ = "int32" -> "Int32" [] typ = "int64" -> "Int64"
      [] typ = "uint" -> "Uint" [] typ = "uint8" -> "Uint8" [] typ = "uint16" -> "Uint16"
      [] typ = "uint32" -> "Uint32" [] typ = "uint64" -> "Uint64"
      [] typ = "float32" -> "Float32" [] typ = "float64" -> "Float64"
      [] typ = "bool" -> "Bool"
      [] typ = "time.Time" -> "Time"
      [] typ \in {"json.RawMessage", "[]byte"} -> "Bytes"
      [] typ = "serializer" -> "Serializer"
      [] OTHER -> "Field"

\* C8: for a field that is no relation and has no custom kind, GenType() strips a single
\* leading "*" from Type and classifies what remains, anything unknown as "Field".
C8_SingleStarStripped ==
    (call.op = "GenType" /\ call.before.Relation = NilRelation
        /\ call.before.CustomGenType = "")
        => call.ret = ClaimedKind(StripOneStar(call.before.Type))

\* s without the whole run of "*" it starts with
StripAllStars(s) ==
    LET k == CHOOSE n \in 0..Len(s) :
                 /\ \A j \in 1..n : At(s, j) = "*"
                 /\ (n = Len(s) \/ At(s, n + 1) # "*")
    IN  SubSeq(s, k + 1, Len(s))

\* C8, amended: for a field that is no relation and has no custom kind, GenType() strips
\* every leading "*" from Type and classifies what remains, anything unknown as "Field";
\* so the field with one more "*" in front of its Type gets the same kind.
C8_AllStarsStripped ==
    (call.op = "GenType" /\ call.before.Relation = NilRelation
        /\ call.before.CustomGenType = "")
        => /\ call.ret = ClaimedKind(StripAllStars(call.before.Type))
           /\ call.ret = GenType([call.before EXCEPT !.Type = "*" \o @])

C8_Witness ==
    /\ call.op = "GenType"
    /\ call.before.Relation = NilRelation
    /\ call.before.CustomGenType = ""
    /\ call.before.Type = "**int64"
    /\ call.ret = "Int64"

\* C10: for a relation field GenType() returns Type as stored, whatever CustomGenType
\* holds; IsRelation() is true exactly when Relation is set; GenType() changes no field.
C10_RelationTypeVerbatim ==
    /\ (call.op = "GenType" /\ call.before.Relation # NilRelation)
          => call.ret = call.before.Type
    /\ call.op = "GenType" => m = call.before
    /\ call.op = "IsRelation" => (call.ret <=> call.before.Relation # NilRelation)

C10_Witness ==
    /\ call.op = "GenType"
    /\ call.before.Relation # NilRelation
    /\ call.before.CustomGenType = "Custom"
    /\ call.before.Type = "*int64"
    /\ call.ret = "*int64"

====
